---- MODULE Spec2Model ----
(***************************************************************************)
(* Model of the two batch migrators of agent-migrator:                     *)
(*   migrate_agents.py   assistants -> agents  (specification Spec)        *)
(*   migrate_threads.py  threads    -> threads (specification ThreadSpec)  *)
(* Python values are modelled as strings where a mutation of the code can  *)
(* produce a value of another type ("True", "False", "None").              *)
(***************************************************************************)
EXTENDS Integers, Sequences, FiniteSets, TLC

\* ------------------------------------------------------------------------
\* Bounds of the model
\* ------------------------------------------------------------------------
\* largest batch returned by assistants.list / list_threads
MaxBatch == 2

\* ------------------------------------------------------------------------
\* Program constants
\* ------------------------------------------------------------------------
\* default of create_agent_with_retries(..., max_retries: int = 5)
DefaultMaxRetries == 5
\* time.sleep(1) between two assistants
PacingDelay == 1
\* sleep_time = 2 ** attempt
BackoffBase == 2

\* os.getenv("MODEL_DEPLOYMENT_NAME")
MODEL_DEPLOYMENT_NAME == "deploy-gpt-4o"

\* ------------------------------------------------------------------------
\* Source data: assistants as returned by client.beta.assistants.list
\* ------------------------------------------------------------------------
NoFunction == "none"

FunctionToolDecl(f) == [type |-> "function", function |-> f]
CodeInterpreterDecl == [type |-> "code_interpreter", function |-> NoFunction]
FileSearchDecl == [type |-> "file_search", function |-> NoFunction]

AssistantPool ==
  { [id |-> "asst_1", name |-> "alpha", instructions |-> "be brief",
     model |-> "gpt-35", tools |-> << >>],
    [id |-> "asst_2", name |-> "beta", instructions |-> "use tools",
     model |-> "gpt-4",
     tools |-> << FunctionToolDecl("f1"), CodeInterpreterDecl, FunctionToolDecl("f2") >>],
    [id |-> "asst_3", name |-> "gamma", instructions |-> "search",
     model |-> "gpt-4", tools |-> << FileSearchDecl, CodeInterpreterDecl >>],
    [id |-> "asst_4", name |-> "alpha", instructions |-> "be brief",
     model |-> "gpt-4o-mini", tools |-> << >>] }

RECURSIVE SeqsUpTo(_, _)
SeqsUpTo(S, n) ==
  IF n = 0 THEN { << >> }
  ELSE LET shorter == SeqsUpTo(S, n - 1)
       IN  shorter \cup { Append(s, x) : s \in { t \in shorter : Len(t) = n - 1 }, x \in S }

AssistantBatches == SeqsUpTo(AssistantPool, MaxBatch)

RECURSIVE Pow(_, _)
Pow(b, e) == IF e = 0 THEN 1 ELSE b * Pow(b, e - 1)

\* ------------------------------------------------------------------------
\* State of one run of migrate_agents.py
\* ------------------------------------------------------------------------
VARIABLES
  pc,           \* position in migrate_assistants_to_agents / __main__
  assistants,   \* the list returned by list_all_assistants
  list_error,   \* "Error retrieving assistants" was printed
  backup_file,  \* content of assistants_backup.json, NoFile when absent
  idx,          \* index of the assistant the loop is at (1 before the loop)
  agent_config, \* payload of the current iteration
  attempt,      \* loop variable of create_agent_with_retries
  outcomes,     \* outcome of each create_agent call of the current iteration
  calls,        \* calls[i]: number of create_agent calls made for assistant i
  results,      \* results[i]: value returned by create_agent_with_retries
  agents,       \* agents created at the destination, in creation order
  sleep_log     \* every time.sleep of the run

avars == << pc, assistants, list_error, backup_file, idx, agent_config,
            attempt, outcomes, calls, results, agents, sleep_log >>

\* ------------------------------------------------------------------------
\* State of one run of migrate_threads.py
\* ------------------------------------------------------------------------
VARIABLES
  tpc,          \* position in migrate_threads / create_thread / __main__
  threads,      \* the list returned by list_threads
  tidx,         \* index of the thread the loop is at (1 before the loop)
  messages,     \* messages retrieved for the current thread, newest first
  backup_dir,   \* files of backup/: thread id -> content
  summary,      \* summary of the current thread
  metadata,     \* metadata prepared for the current thread
  dest_threads, \* threads of the destination, in creation order
  main_log      \* what the handler of __main__ logged, NoError when nothing

tvars == << tpc, threads, tidx, messages, backup_dir, summary, metadata,
            dest_threads, main_log >>

vars == << avars, tvars >>

NoFile == [exists |-> FALSE, content |-> << >>]
NoSummary == [summary_of |-> << >>]
NoError == "none"
NoConfig == [name |-> "", instructions |-> "", model |-> "", tools |-> << >>]

Init ==
  /\ pc = "start"
  /\ assistants = << >>
  /\ list_error = FALSE
  /\ backup_file = NoFile
  /\ idx = 1
  /\ agent_config = NoConfig
  /\ attempt = 0
  /\ outcomes = << >>
  /\ calls = << >>
  /\ results = << >>
  /\ agents = << >>
  /\ sleep_log = << >>
  /\ tpc = "start"
  /\ threads = << >>
  /\ tidx = 1
  /\ messages = << >>
  /\ backup_dir = << >>
  /\ summary = NoSummary
  /\ metadata = << >>
  /\ dest_threads = << >>
  /\ main_log = NoError

\* ------------------------------------------------------------------------
\* Pure helpers of migrate_agents.py
\* ------------------------------------------------------------------------
\* assistant.model_dump(): the assistant as a dictionary of its fields
ModelDump(assistant) ==
  [id |-> assistant.id, name |-> assistant.name,
   instructions |-> assistant.instructions, model |-> assistant.model,
   tools |-> assistant.tools]

\* a file of the local disk after a write of content
WrittenFile(content) == [exists |-> TRUE, content |-> content]

\* the list json.dump writes to assistants_backup.json
AssistantsData(as) == [i \in 1..Len(as) |-> ModelDump(as[i])]

\* faulty variant: the model of the source assistant is copied
TransformKeepsSourceModel(assistant) ==
  [name |-> assistant.name,
   instructions |-> assistant.instructions,
   model |-> assistant.model,
   tools |-> assistant.tools]

TransformAssistantToAgent(assistant) ==
  [name |-> assistant.name,
   instructions |-> assistant.instructions,
   model |-> MODEL_DEPLOYMENT_NAME,
   tools |-> assistant.tools]

\* faulty variant: a tool of an unknown kind is handed on instead of skipped
ConvertToolKeepUnknown(tool) ==
  IF tool.type = "function" THEN << [kind |-> "FunctionTool", function |-> tool.function] >>
  ELSE IF tool.type = "code_interpreter"
       THEN << [kind |-> "CodeInterpreterTool", function |-> NoFunction] >>
       ELSE << [kind |-> tool.type, function |-> NoFunction] >>

\* one pass of the loop "for tool in agent_config.get('tools', [])"
ConvertTool(tool) ==
  IF tool.type = "function" THEN << [kind |-> "FunctionTool", function |-> tool.function] >>
  ELSE IF tool.type = "code_interpreter"
       THEN << [kind |-> "CodeInterpreterTool", function |-> NoFunction] >>
       ELSE << >>

RECURSIVE ToolSetOf(_)
ToolSetOf(tools) ==
  IF tools = << >> THEN << >>
  ELSE ConvertTool(Head(tools)) \o ToolSetOf(Tail(tools))

\* the arguments of agent_client.agents.create_agent
CreatedAgent(config) ==
  [model |-> MODEL_DEPLOYMENT_NAME,
   name |-> config.name,
   instructions |-> config.instructions,
   toolset |-> ToolSetOf(config.tools)]

\* What one call of create_agent can meet: the tool conversion raises, the
\* destination call raises, or both go through.
Outcomes == { "ok", "tool_error", "create_error" }

\* create_agent: True after a successful creation, every Exception is caught
\* inside and turned into False.
CreateAgentReturn(outcome) == IF outcome = "ok" THEN "True" ELSE "False"

\* faulty variant: the function ends without the return of line 120
FallThroughReturnMissing == "None"

\* line 120, the return after the for loop
FallThroughReturn == "False"

\* faulty variant: a successful call does not leave the loop at once
RetryStepNoEarlyReturn(att, max_retries, success) ==
  IF att < max_retries
  THEN [kind |-> "continue", value |-> "None", sleep |-> 0]
  ELSE [kind |-> "return", value |-> success, sleep |-> 0]

\* faulty variant: the loop runs over range(1, max_retries + 2)
RetryStepOneMore(att, max_retries, success) ==
  IF success = "True"
  THEN [kind |-> "return", value |-> "True", sleep |-> 0]
  ELSE IF att <= max_retries
       THEN [kind |-> "continue", value |-> "None", sleep |-> 0]
       ELSE [kind |-> "return", value |-> "False", sleep |-> 0]

\* One iteration of the for loop of create_agent_with_retries, given what
\* create_agent did: success is "True"/"False", or "raise" when the call raised.
\*   kind  "return": the function returns value;  "continue": next attempt
\*   sleep the argument of time.sleep, 0 when the iteration does not sleep
RetryStep(att, max_retries, success) ==
  IF success = "True"
  THEN [kind |-> "return", value |-> "True", sleep |-> 0]
  ELSE IF success = "raise"
       THEN IF att < max_retries
            THEN [kind |-> "continue", value |-> "None", sleep |-> Pow(BackoffBase, att)]
            ELSE [kind |-> "return", value |-> "False", sleep |-> 0]
       ELSE IF att < max_retries
            THEN [kind |-> "continue", value |-> "None", sleep |-> 0]
            ELSE [kind |-> "return", value |-> FallThroughReturn, sleep |-> 0]

\* "for assistant in assistants": the body runs for assistant i of n, if any
LoopNext(i, n) == IF i <= n THEN "transform" ELSE "done"

\* faulty variant: the loop is entered without the backup step
AfterListSkipBackup(as) == LoopNext(1, Len(as))

\* faulty variant: no early return on an empty list
AfterListNoEmptyCheck(as) == "backup"

\* "if not assistants: return", else on to backup_assistants
AfterList(as) == IF as = << >> THEN "done" ELSE "backup"

\* faulty variant: the loop is left when an assistant could not be created
AfterReportStopOnFailure(success, i, n) ==
  IF success = "True" THEN LoopNext(i + 1, n) ELSE "done"

\* end of the iteration of assistant i of n; success is what
\* create_agent_with_retries returned and only selects the line printed
AfterReport(success, i, n) == LoopNext(i + 1, n)

\* ------------------------------------------------------------------------
\* Steps of migrate_assistants_to_agents
\* ------------------------------------------------------------------------
\* list_all_assistants returns response.data
ListAssistants ==
  /\ pc = "start"
  /\ \E batch \in AssistantBatches :
       /\ assistants' = batch
       /\ calls' = [i \in 1..Len(batch) |-> 0]
       /\ pc' = AfterList(batch)
  /\ UNCHANGED << list_error, backup_file, idx, agent_config, attempt,
                  outcomes, results, agents, sleep_log >>
  /\ UNCHANGED tvars

\* list_all_assistants catches the error of the listing and returns []
ListAssistantsFails ==
  /\ pc = "start"
  /\ assistants' = << >>
  /\ calls' = << >>
  /\ list_error' = TRUE
  /\ pc' = AfterList(<< >>)
  /\ UNCHANGED << backup_file, idx, agent_config, attempt, outcomes,
                  results, agents, sleep_log >>
  /\ UNCHANGED tvars

\* backup_assistants(assistants) writes the file
BackupAssistants ==
  /\ pc = "backup"
  /\ backup_file' = WrittenFile(AssistantsData(assistants))
  /\ pc' = LoopNext(1, Len(assistants))
  /\ UNCHANGED << assistants, list_error, idx, agent_config, attempt, outcomes,
                  calls, results, agents, sleep_log >>
  /\ UNCHANGED tvars

\* open()/json.dump raise: nothing catches it in backup_assistants, in
\* migrate_assistants_to_agents or in __main__, the process dies
BackupAssistantsFails ==
  /\ pc = "backup"
  /\ pc' = "crashed"
  /\ UNCHANGED << assistants, list_error, backup_file, idx, agent_config,
                  attempt, outcomes, calls, results, agents, sleep_log >>
  /\ UNCHANGED tvars

\* agent_config = transform_assistant_to_agent(assistant), then the call of
\* create_agent_with_retries enters its loop with attempt = 1
Transform ==
  /\ pc = "transform"
  /\ agent_config' = TransformAssistantToAgent(assistants[idx])
  /\ attempt' = 1
  /\ outcomes' = << >>
  /\ pc' = "create"
  /\ UNCHANGED << assistants, list_error, backup_file, idx, calls, results,
                  agents, sleep_log >>
  /\ UNCHANGED tvars

\* one iteration of the retry loop: one call of create_agent
CreateAttempt ==
  /\ pc = "create"
  /\ \E outcome \in Outcomes :
       LET success == CreateAgentReturn(outcome)
           step == RetryStep(attempt, DefaultMaxRetries, success)
       IN  /\ outcomes' = Append(outcomes, outcome)
           /\ calls' = [calls EXCEPT ![idx] = @ + 1]
           /\ agents' = IF outcome = "ok"
                        THEN Append(agents, CreatedAgent(agent_config))
                        ELSE agents
           /\ sleep_log' = IF step.sleep > 0
                           THEN Append(sleep_log,
                                  [at |-> idx, secs |-> step.sleep, why |-> "backoff"])
                           ELSE sleep_log
           /\ IF step.kind = "return"
              THEN /\ results' = Append(results, step.value)
                   /\ attempt' = attempt
                   /\ pc' = "report"
              ELSE /\ results' = results
                   /\ attempt' = attempt + 1
                   /\ pc' = "create"
  /\ UNCHANGED << assistants, list_error, backup_file, idx, agent_config >>
  /\ UNCHANGED tvars

\* the success/failure print, time.sleep(1), and the next iteration
Report ==
  /\ pc = "report"
  /\ sleep_log' = Append(sleep_log, [at |-> idx, secs |-> PacingDelay, why |-> "pacing"])
  /\ pc' = AfterReport(results[idx], idx, Len(assistants))
  /\ idx' = idx + 1
  /\ UNCHANGED << assistants, list_error, backup_file, agent_config, attempt,
                  outcomes, calls, results, agents >>
  /\ UNCHANGED tvars

Next ==
  \/ ListAssistants
  \/ ListAssistantsFails
  \/ BackupAssistants
  \/ BackupAssistantsFails
  \/ Transform
  \/ CreateAttempt
  \/ Report

Spec == Init /\ [][Next]_vars

\* ------------------------------------------------------------------------
\* Source data of migrate_threads.py: threads as returned by GET /threads,
\* with the messages client.beta.threads.messages.list yields (newest first)
\* ------------------------------------------------------------------------
TextPart(v) == [type |-> "text", value |-> v]
ImagePart(v) == [type |-> "image_file", value |-> v]
AudioPart(v) == [type |-> "audio", value |-> v]

Msg(a, parts) == [assistant_id |-> a, content |-> parts]

ThreadPool ==
  { [id |-> "thread_1", metadata |-> << >>, messages |-> << >>],
    [id |-> "thread_2", metadata |-> [topic |-> "billing"],
     messages |-> << Msg("asst_2", << TextPart("bye") >>),
                     Msg("asst_2", << TextPart("hi"), ImagePart("file_1") >>),
                     Msg("None", << TextPart("hello") >>) >>],
    [id |-> "thread_3", metadata |-> << >>,
     messages |-> << Msg("asst_1", << AudioPart("clip") >>) >>] }

\* the listing returns every thread once
ThreadBatches ==
  { b \in SeqsUpTo(ThreadPool, MaxBatch) :
       \A i, j \in 1..Len(b) : b[i].id = b[j].id => i = j }

\* ------------------------------------------------------------------------
\* Pure helpers of migrate_threads.py
\* ------------------------------------------------------------------------
\* faulty variant: the messages are taken in retrieval order
NotReversed(s) == s

\* reversed(messages)
RECURSIVE Reversed(_)
Reversed(s) == IF s = << >> THEN << >> ELSE Append(Reversed(Tail(s)), Head(s))

\* the text one content part adds to the prompt
ContentEntry(content) ==
  IF content.type = "text" THEN [tag |-> "Text", v |-> content.value]
  ELSE IF content.type = "image_file" THEN [tag |-> "Image File ID", v |-> content.value]
       ELSE [tag |-> "Unknown content type", v |-> content.type]

\* the text one message adds to the prompt
MessageEntries(msg) ==
  << [tag |-> "Agent", v |-> msg.assistant_id] >>
    \o [k \in 1..Len(msg.content) |-> ContentEntry(msg.content[k])]

RECURSIVE Concat(_)
Concat(ss) == IF ss = << >> THEN << >> ELSE Head(ss) \o Concat(Tail(ss))

\* the prompt generate_summary assembles, after its fixed first line
Prompt(msgs) ==
  LET rev == Reversed(msgs)
  IN  Concat([k \in 1..Len(rev) |-> MessageEntries(rev[k])])

\* response.choices[0].message.content: the completion is a function of the
\* prompt alone (temperature 0)
GenerateSummary(msgs) == [summary_of |-> Prompt(msgs)]

\* a dictionary with one more key set
SetKey(d, k, v) == [x \in (DOMAIN d) \cup {k} |-> IF x = k THEN v ELSE d[x]]

\* metadata = thread.get('metadata', {}) with orig_thread_id and summary set
PrepareMetadata(thread, s) ==
  SetKey(SetKey(thread.metadata, "orig_thread_id", thread.id), "summary", s)

\* thread_reference of create_thread
ThreadReference(md) == [orig_thread_id |-> md["orig_thread_id"]]

\* [msg.model_dump() for msg in messages]
SerializableMessages(msgs) ==
  [k \in 1..Len(msgs) |-> [assistant_id |-> msgs[k].assistant_id,
                            content |-> msgs[k].content]]

\* faulty variant: threads without messages are migrated like the others
SkipThreadNever(msgs) == FALSE

\* "if not messages": the thread is skipped
SkipThread(msgs) == msgs = << >>

\* faulty variant: the messages are not backed up before the summary
FirstStepNoBackup == "summary"

\* the first statement of the loop body after the check for messages
FirstStep == "backup"

\* faulty variant: the seed message is posted without the metadata update
AfterCreateThreadNoUpdate == "create_message"

\* create_thread: the statement after agents.create_thread()
AfterCreateThread == "update_thread"

\* the step after the iteration of thread i of n: next thread, or the log of
\* line 162 and the end of the process
NextThread(i, n) == IF i < n THEN "retrieve" ELSE "completed"

\* an exception raised inside migrate_threads: nothing catches it before
\* the handler of __main__, which logs it; the process then ends
Propagate(what) ==
  /\ main_log' = what
  /\ tpc' = "exited"

\* ------------------------------------------------------------------------
\* Steps of migrate_threads
\* ------------------------------------------------------------------------
ListThreads ==
  /\ tpc = "start"
  /\ \E batch \in ThreadBatches : threads' = batch
  /\ tpc' = "list_agents"
  /\ UNCHANGED << tidx, messages, backup_dir, summary, metadata,
                  dest_threads, main_log >>
  /\ UNCHANGED avars

\* requests.get fails or response.raise_for_status() raises
ListThreadsFails ==
  /\ tpc = "start"
  /\ Propagate("list_threads")
  /\ UNCHANGED << threads, tidx, messages, backup_dir, summary, metadata,
                  dest_threads >>
  /\ UNCHANGED avars

\* agent = project_client.agents.list_agents().data[0], then the loop starts
ListAgents ==
  /\ tpc = "list_agents"
  /\ tpc' = NextThread(0, Len(threads))
  /\ UNCHANGED << threads, tidx, messages, backup_dir, summary, metadata,
                  dest_threads, main_log >>
  /\ UNCHANGED avars

\* the listing raises, or data is empty and data[0] raises IndexError
ListAgentsFails ==
  /\ tpc = "list_agents"
  /\ Propagate("list_agents")
  /\ UNCHANGED << threads, tidx, messages, backup_dir, summary, metadata,
                  dest_threads >>
  /\ UNCHANGED avars

\* messages = retrieve_messages(...); "if not messages: continue"
RetrieveMessages ==
  /\ tpc = "retrieve"
  /\ messages' = threads[tidx].messages
  /\ IF SkipThread(threads[tidx].messages)
     THEN /\ tpc' = NextThread(tidx, Len(threads))
          /\ tidx' = tidx + 1
     ELSE /\ tpc' = FirstStep
          /\ tidx' = tidx
  /\ UNCHANGED << threads, backup_dir, summary, metadata, dest_threads, main_log >>
  /\ UNCHANGED avars

RetrieveMessagesFails ==
  /\ tpc = "retrieve"
  /\ Propagate("retrieve_messages")
  /\ UNCHANGED << threads, tidx, messages, backup_dir, summary, metadata,
                  dest_threads >>
  /\ UNCHANGED avars

\* backup/<thread_id>.json is written
BackupThread ==
  /\ tpc = "backup"
  /\ backup_dir' = SetKey(backup_dir, threads[tidx].id, SerializableMessages(messages))
  /\ tpc' = "summary"
  /\ UNCHANGED << threads, tidx, messages, summary, metadata, dest_threads, main_log >>
  /\ UNCHANGED avars

BackupThreadFails ==
  /\ tpc = "backup"
  /\ Propagate("backup")
  /\ UNCHANGED << threads, tidx, messages, backup_dir, summary, metadata,
                  dest_threads >>
  /\ UNCHANGED avars

\* summary = generate_summary(...), then the metadata is prepared
Summarize ==
  /\ tpc = "summary"
  /\ summary' = GenerateSummary(messages)
  /\ metadata' = PrepareMetadata(threads[tidx], GenerateSummary(messages))
  /\ tpc' = "create_thread"
  /\ UNCHANGED << threads, tidx, messages, backup_dir, dest_threads, main_log >>
  /\ UNCHANGED avars

SummarizeFails ==
  /\ tpc = "summary"
  /\ Propagate("generate_summary")
  /\ UNCHANGED << threads, tidx, messages, backup_dir, summary, metadata,
                  dest_threads >>
  /\ UNCHANGED avars

\* create_thread, first step: thread = proj_client.agents.create_thread()
CreateThread ==
  /\ tpc = "create_thread"
  /\ dest_threads' = Append(dest_threads,
                            [source |-> tidx, metadata |-> << >>, messages |-> << >>])
  /\ tpc' = AfterCreateThread
  /\ UNCHANGED << threads, tidx, messages, backup_dir, summary, metadata, main_log >>
  /\ UNCHANGED avars

CreateThreadFails ==
  /\ tpc = "create_thread"
  /\ Propagate("create_thread")
  /\ UNCHANGED << threads, tidx, messages, backup_dir, summary, metadata,
                  dest_threads >>
  /\ UNCHANGED avars

\* second step: update_thread(thread.id, metadata=thread_reference)
UpdateThread ==
  /\ tpc = "update_thread"
  /\ dest_threads' = [dest_threads EXCEPT
                        ![Len(dest_threads)].metadata = ThreadReference(metadata)]
  /\ tpc' = "create_message"
  /\ UNCHANGED << threads, tidx, messages, backup_dir, summary, metadata, main_log >>
  /\ UNCHANGED avars

UpdateThreadFails ==
  /\ tpc = "update_thread"
  /\ Propagate("update_thread")
  /\ UNCHANGED << threads, tidx, messages, backup_dir, summary, metadata,
                  dest_threads >>
  /\ UNCHANGED avars

\* third step: create_message(thread_id, role="user", content=metadata['summary']),
\* create_thread returns, the new id is logged and the loop goes on
CreateMessage ==
  /\ tpc = "create_message"
  /\ dest_threads' = [dest_threads EXCEPT
                        ![Len(dest_threads)].messages =
                            Append(@, [role |-> "user", content |-> metadata["summary"]])]
  /\ tpc' = NextThread(tidx, Len(threads))
  /\ tidx' = tidx + 1
  /\ UNCHANGED << threads, messages, backup_dir, summary, metadata, main_log >>
  /\ UNCHANGED avars

CreateMessageFails ==
  /\ tpc = "create_message"
  /\ Propagate("create_message")
  /\ UNCHANGED << threads, tidx, messages, backup_dir, summary, metadata,
                  dest_threads >>
  /\ UNCHANGED avars

ThreadNext ==
  \/ ListThreads
  \/ ListThreadsFails
  \/ ListAgents
  \/ ListAgentsFails
  \/ RetrieveMessages
  \/ RetrieveMessagesFails
  \/ BackupThread
  \/ BackupThreadFails
  \/ Summarize
  \/ SummarizeFails
  \/ CreateThread
  \/ CreateThreadFails
  \/ UpdateThread
  \/ UpdateThreadFails
  \/ CreateMessage
  \/ CreateMessageFails

ThreadSpec == Init /\ [][ThreadNext]_vars

TypeOK ==
  /\ pc \in { "start", "backup", "transform", "create", "report", "done", "crashed" }
  /\ assistants \in AssistantBatches
  /\ idx \in 1..(MaxBatch + 1)
  /\ tpc \in { "start", "list_agents", "retrieve", "backup", "summary",
               "create_thread", "update_thread", "create_message",
               "completed", "exited" }
  /\ threads \in ThreadBatches
  /\ tidx \in 1..(MaxBatch + 1)

\* ------------------------------------------------------------------------
\* Properties of the assistant migrator (checked under Spec)
\* ------------------------------------------------------------------------
AnyCreationCall == \E i \in DOMAIN calls : calls[i] > 0

\* the index of the first "ok" in a sequence of outcomes, 0 when there is none
FirstOk(os) ==
  IF \E k \in DOMAIN os : os[k] = "ok"
  THEN CHOOSE k \in DOMAIN os : os[k] = "ok" /\ \A j \in 1..(k - 1) : os[j] # "ok"
  ELSE 0

\* the seconds slept as backoff while assistant i was being created
RECURSIVE BackoffsOf(_, _)
BackoffsOf(log, i) ==
  IF log = << >> THEN << >>
  ELSE IF Head(log).at = i /\ Head(log).why = "backoff"
       THEN << Head(log).secs >> \o BackoffsOf(Tail(log), i)
       ELSE BackoffsOf(Tail(log), i)

\* C1: whenever a creation call has been made, the backup of the whole batch
\* is already written; before and during the backup step no creation call
\* has been made.
C1_BackupBeforeCreate ==
  /\ (AnyCreationCall \/ agents # << >>) =>
        backup_file = WrittenFile(AssistantsData(assistants))
  /\ pc \in { "start", "backup" } => ~AnyCreationCall /\ agents = << >>
  /\ pc \in { "transform", "create", "report" } => backup_file.exists

C1_Witness ==
  /\ Len(assistants) = 2
  /\ calls[1] >= 1
  /\ backup_file = WrittenFile(AssistantsData(assistants))

\* C2: once enumeration has returned an empty batch the run is at its clean
\* end, no backup file is written and no creation call was made.
C2_EmptyBatchEndsClean ==
  (pc # "start" /\ assistants = << >>) =>
     /\ pc = "done"
     /\ backup_file = NoFile
     /\ ~AnyCreationCall
     /\ agents = << >>
     /\ results = << >>

C2_Witness == pc = "done" /\ assistants = << >> /\ ~list_error

\* C3: when the creation call fails K times and then succeeds (K < N), the
\* retry function has returned True for that assistant and the call was made
\* exactly K+1 times: the success is the last call.
C3_SuccessAfterKFailures ==
  FirstOk(outcomes) # 0 =>
     LET K == FirstOk(outcomes) - 1
     IN  /\ K < DefaultMaxRetries
         /\ Len(outcomes) = K + 1
         /\ pc # "create"
         /\ Len(results) >= 1
         /\ results[Len(results)] = "True"
         /\ calls[Len(results)] = K + 1

C3_Witness ==
  /\ pc = "report"
  /\ FirstOk(outcomes) = DefaultMaxRetries
  /\ results[idx] = "True"
  /\ calls[idx] = DefaultMaxRetries

\* C4 (as claimed): while an assistant is being created, the backoff waits
\* made so far are 2, 4, 8, ... seconds, one after each failed attempt that
\* is followed by another attempt.
C4_BackoffBetweenAttempts ==
  pc = "create" =>
     BackoffsOf(sleep_log, idx) = [k \in 1..(attempt - 1) |-> Pow(BackoffBase, k)]

\* C5: when every creation call for an assistant fails, the call has been
\* made exactly N times, the retry function returns False, and the loop goes
\* on with the next assistant when there is one.
C5_AlwaysFailing ==
  /\ \A i \in DOMAIN results :
        results[i] = "False" => calls[i] = DefaultMaxRetries
  /\ (pc = "report" /\ FirstOk(outcomes) = 0) =>
        /\ Len(outcomes) = DefaultMaxRetries
        /\ results[idx] = "False"
  /\ (pc = "create" /\ FirstOk(outcomes) = 0) => Len(outcomes) < DefaultMaxRetries
  /\ \A i \in DOMAIN results :
        (results[i] = "False" /\ idx > i /\ idx <= Len(assistants)) =>
           pc \in { "transform", "create", "report" }

C5_Witness ==
  /\ Len(assistants) = 2
  /\ Len(results) >= 1
  /\ results[1] = "False"
  /\ calls[1] = DefaultMaxRetries
  /\ idx = 2
  /\ pc = "create"

\* C6 (as claimed): no assistant receives more than 3 creation attempts.
C6_AtMostThreeAttempts == \A i \in DOMAIN calls : calls[i] <= 3

\* C6 (amended): no assistant receives more than 5 creation attempts, the
\* default max_retries, which the migrator does not override.
C6_AtMostDefaultAttempts == \A i \in DOMAIN calls : calls[i] <= DefaultMaxRetries

C6_Witness == \E i \in DOMAIN calls : calls[i] = DefaultMaxRetries

\* C7 (as claimed): a run over a non-empty batch that has ended has reached
\* the end of the loop, and every assistant of the batch was given at least
\* one creation attempt.
C7_EveryAssistantAttempted ==
  (assistants # << >> /\ pc \in { "done", "crashed" }) =>
     /\ pc = "done"
     /\ \A i \in 1..Len(assistants) : calls[i] >= 1

\* C9 (as claimed): a failed write of the backup file does not block the
\* migration: the run goes on to the loop over the assistants.
C9_BackupFailureDoesNotBlock ==
  [][BackupAssistantsFails => pc' = LoopNext(1, Len(assistants))]_vars

\* C10: create_agent_with_retries hands a boolean back to its caller for
\* every assistant, whatever errors the calls of create_agent met; no
\* creation error ends the process.
C10_RetriesNeverRaise ==
  /\ \A i \in DOMAIN results : results[i] \in { "True", "False" }
  /\ pc = "report" => Len(results) = idx
  /\ AnyCreationCall => pc # "crashed"

C10_Witness ==
  /\ pc = "report"
  /\ results[idx] = "False"
  /\ \E j, k \in DOMAIN outcomes :
        outcomes[j] = "tool_error" /\ outcomes[k] = "create_error"

\* the indices i >= from of the assistants for which True was returned
RECURSIVE TrueIndices(_, _)
TrueIndices(rs, from) ==
  IF from > Len(rs) THEN << >>
  ELSE (IF rs[from] = "True" THEN << from >> ELSE << >>) \o TrueIndices(rs, from + 1)

\* the tools of a source list that the destination supports, in source order
SupportedTools(tools) ==
  SelectSeq(tools, LAMBDA t : t.type \in { "function", "code_interpreter" })

\* toolset has exactly one entry per supported tool of tools, in that order
MatchesTools(toolset, tools) ==
  LET sup == SupportedTools(tools)
  IN  /\ Len(toolset) = Len(sup)
      /\ \A j \in 1..Len(sup) :
            IF sup[j].type = "function"
            THEN toolset[j].kind = "FunctionTool" /\ toolset[j].function = sup[j].function
            ELSE toolset[j].kind = "CodeInterpreterTool"

\* two source assistants that differ at most in their model (and id)
SameButModel(a, b) ==
  /\ a.name = b.name
  /\ a.instructions = b.instructions
  /\ a.tools = b.tools

\* C14: the tool set of every created agent has one entry for each function
\* tool and each code_interpreter tool of its source assistant, in source
\* order, and no entry for a tool of another kind.
C14_ToolSetFiltered ==
  LET created == TrueIndices(results, 1)
  IN  /\ Len(agents) = Len(created)
      /\ \A k \in 1..Len(created) :
            MatchesTools(agents[k].toolset, assistants[created[k]].tools)

C14_Witness ==
  /\ Len(agents) = 2
  /\ Len(results) = 2
  /\ assistants[1].tools = << FileSearchDecl, CodeInterpreterDecl >>
  /\ agents[1].toolset = << [kind |-> "CodeInterpreterTool", function |-> NoFunction] >>
  /\ Len(assistants[2].tools) = 3
  /\ Len(agents[2].toolset) = 3

\* C15: the model of every payload and of every creation call is the
\* configured deployment; assistants that differ only in their model get the
\* same payload and the same creation call.
C15_ModelFromConfiguration ==
  /\ \A k \in DOMAIN agents : agents[k].model = MODEL_DEPLOYMENT_NAME
  /\ pc \in { "create", "report" } =>
        /\ agent_config.model = MODEL_DEPLOYMENT_NAME
        /\ \A i \in 1..Len(assistants) :
              SameButModel(assistants[i], assistants[idx]) =>
                 agent_config = [name |-> assistants[i].name,
                                 instructions |-> assistants[i].instructions,
                                 model |-> MODEL_DEPLOYMENT_NAME,
                                 tools |-> assistants[i].tools]
  /\ LET created == TrueIndices(results, 1)
     IN  \A k, l \in 1..Len(created) :
            (Len(agents) = Len(created)
               /\ SameButModel(assistants[created[k]], assistants[created[l]])) =>
                  agents[k] = agents[l]

C15_Witness ==
  /\ Len(assistants) = 2
  /\ assistants[1].model # assistants[2].model
  /\ SameButModel(assistants[1], assistants[2])
  /\ Len(agents) = 2
  /\ agents[1] = agents[2]
  /\ pc = "report"
  /\ agent_config.model # assistants[2].model

\* C19: for every assistant at most one creation call succeeds, so there is
\* one agent per assistant for which True was returned, none for the others,
\* and never more agents than assistants.
C19_AtMostOneAgentPerAssistant ==
  /\ Cardinality({ k \in DOMAIN outcomes : outcomes[k] = "ok" }) <= 1
  /\ Len(agents) = Len(TrueIndices(results, 1))
  /\ Len(agents) <= Len(assistants)

C19_Witness ==
  /\ Len(assistants) = 2
  /\ pc = "done"
  /\ calls[1] = DefaultMaxRetries
  /\ results = << "True", "False" >>
  /\ Len(agents) = 1

\* C13 (as claimed, assistant migrator): no run ends with an exception that
\* nothing has caught.
C13_NoUnhandledException == pc # "crashed"

\* ------------------------------------------------------------------------
\* Properties of the thread migrator (checked under ThreadSpec)
\* ------------------------------------------------------------------------
\* C8 (as claimed): when a step of create_thread fails for a thread, the
\* loop continues with the thread after it.
C8_CreationFailureContained ==
  [][(CreateThreadFails \/ UpdateThreadFails \/ CreateMessageFails) =>
        (tpc' = NextThread(tidx, Len(threads)) /\ tidx' = tidx + 1)]_vars

\* C11 (as claimed): a destination thread whose metadata update went through
\* carries orig_thread_id (the id of its source thread), summary, and every
\* metadata key of the source thread with its value.
C11_MetadataCarried ==
  \A k \in DOMAIN dest_threads :
     LET d == dest_threads[k]
         src == threads[d.source]
     IN  DOMAIN d.metadata # {} =>
            /\ "orig_thread_id" \in DOMAIN d.metadata
            /\ d.metadata["orig_thread_id"] = src.id
            /\ "summary" \in DOMAIN d.metadata
            /\ \A key \in DOMAIN src.metadata :
                  key \in DOMAIN d.metadata /\ d.metadata[key] = src.metadata[key]

\* C12 (as claimed, thread migrator): a failure of the source listing is not
\* raised: list_threads hands an empty list back to migrate_threads, which
\* goes on to its next statement with nothing logged by the handler.
C12_ListFailureReturnsEmpty ==
  [][ListThreadsFails =>
        (threads' = << >> /\ tpc' = "list_agents" /\ main_log' = NoError)]_vars

\* the entries of msgs[k], msgs[k-1], ..., msgs[1], in that order
RECURSIVE OldestFirst(_, _)
OldestFirst(msgs, k) ==
  IF k = 0 THEN << >> ELSE MessageEntries(msgs[k]) \o OldestFirst(msgs, k - 1)

AfterSummary == { "create_thread", "update_thread", "create_message" }

\* backup/<id>.json of thread i holds the messages of that thread
HasBackup(i) ==
  /\ threads[i].id \in DOMAIN backup_dir
  /\ backup_dir[threads[i].id] = SerializableMessages(threads[i].messages)

LastDestThread == dest_threads[Len(dest_threads)]

\* C16: the prompt the summary was generated from lists the messages oldest
\* first, the reverse of the retrieval order, the entries of one message
\* together.
C16_PromptChronological ==
  tpc \in AfterSummary => summary.summary_of = OldestFirst(messages, Len(messages))

C16_Witness ==
  /\ tpc = "create_thread"
  /\ Len(messages) = 3
  /\ summary.summary_of[1] = [tag |-> "Agent", v |-> messages[3].assistant_id]
  /\ summary.summary_of[Len(summary.summary_of)] = [tag |-> "Text", v |-> "bye"]

\* C17: a thread whose summarization or destination creation has started
\* has its backup file; the backup files of the earlier threads that had
\* messages exist with their content at every later point of the run, also
\* after the run aborted.
BackupsInPlace ==
  /\ tpc \in { "summary" } \cup AfterSummary => HasBackup(tidx)
  /\ \A i \in 1..(tidx - 1) : threads[i].messages # << >> => HasBackup(i)
  /\ \A k \in DOMAIN dest_threads : HasBackup(dest_threads[k].source)

\* no step writes to or removes a backup file that exists
BackupsKept ==
  /\ \A id \in DOMAIN backup_dir :
        id \in DOMAIN backup_dir' /\ backup_dir'[id] = backup_dir[id]
  /\ BackupThread => threads[tidx].id \notin DOMAIN backup_dir

C17_BackupBeforeProcessing == []BackupsInPlace /\ [][BackupsKept]_vars

C17_Witness ==
  /\ tpc = "exited"
  /\ main_log = "generate_summary"
  /\ tidx = 2
  /\ threads[1].id # threads[2].id
  /\ HasBackup(1)
  /\ HasBackup(2)

\* C18: create_thread creates the thread, then attaches the metadata, then
\* posts the seed message; a thread has its seed message only with its
\* metadata attached, and a failure of the second or third step leaves the
\* created thread behind without its seed message.
C18_CreateThreadStepOrder ==
  /\ \A k \in DOMAIN dest_threads :
        /\ Len(dest_threads[k].messages) <= 1
        /\ dest_threads[k].messages # << >> => DOMAIN dest_threads[k].metadata # {}
  /\ tpc = "update_thread" =>
        /\ dest_threads # << >>
        /\ DOMAIN LastDestThread.metadata = {}
        /\ LastDestThread.messages = << >>
  /\ tpc = "create_message" =>
        /\ dest_threads # << >>
        /\ DOMAIN LastDestThread.metadata # {}
        /\ LastDestThread.messages = << >>
  /\ main_log \in { "update_thread", "create_message" } =>
        /\ dest_threads # << >>
        /\ LastDestThread.source = tidx
        /\ LastDestThread.messages = << >>

C18_Witness ==
  /\ main_log = "create_message"
  /\ tpc = "exited"
  /\ dest_threads # << >>
  /\ DOMAIN LastDestThread.metadata # {}
  /\ LastDestThread.messages = << >>

\* C20: a thread without messages is skipped: it has no backup file and no
\* destination thread, no step after the retrieval runs for it, and the
\* loop goes on with the thread after it.
C20_EmptyThreadSkipped ==
  /\ tpc \in { "backup", "summary" } \cup AfterSummary => threads[tidx].messages # << >>
  /\ \A i \in 1..Len(threads) :
        threads[i].messages = << >> =>
           /\ threads[i].id \notin DOMAIN backup_dir
           /\ \A k \in DOMAIN dest_threads : dest_threads[k].source # i
  /\ tpc = "completed" => tidx = Len(threads) + 1
  /\ (tpc = "retrieve" /\ tidx > 1 /\ threads[tidx - 1].messages = << >>) =>
        tidx <= Len(threads)

C20_Witness ==
  /\ Len(threads) = 2
  /\ threads[1].messages = << >>
  /\ tidx = 2
  /\ tpc = "backup"
  /\ DOMAIN backup_dir = {}
  /\ dest_threads = << >>

====
